---- MODULE Spec2Model ----
(***************************************************************************)
(* St. Gallen Startup Tycoon: the turn-resolution engine                   *)
(* (startup_tycoon_main.py, swiss_events_manager.py) and its web front end *)
(* (app.py).                                                               *)
(*                                                                         *)
(* Numbers.  balance, customers, employees and loan fields are integers,   *)
(* as in the source.  reputation and product_quality are Python floats;    *)
(* they are kept here as integers counted in hundredths (1.0 is 100):      *)
(* every constant the source adds to or subtracts from them is a multiple  *)
(* of 0.05.  random.uniform(a, b) and random.randint(a, b) are a choice    *)
(* between the two ends of the range, random.random() is a choice among    *)
(* the hundredths 0.00 .. 0.99, and int(x) truncates toward zero.          *)
(* A roll k stands for the draws between the cumulative probabilities     *)
(* (k-1)/100 and k/100; the table's probabilities are whole hundredths.    *)
(* owner_name and history (an append-only log no code reads back) are      *)
(* left out of the company record.                                         *)
(*                                                                         *)
(* Specifications.  SpecLoan, SpecAction, SpecScore, SpecTable,             *)
(* SpecHandlers, SpecFinance and SpecBoost call the engine's methods on    *)
(* one Company; SpecCLI is the command-line game's main loop (run_game)    *)
(* and SpecCLIFair the same loop that keeps running; Spec is the web game  *)
(* (start_game, complete_turn) from a new company, SpecDecline the same    *)
(* game under server crashes and legal fines, SpecPrompt the web game      *)
(* with the resolution call of the interactive events, SpecStatus the      *)
(* score pages; SpecBoundary is one complete_turn request on sessions      *)
(* around the debt limit and the last month.                               *)
(***************************************************************************)
EXTENDS Integers, Sequences, FiniteSets, TLC

VARIABLES
    company,    \* the Company object the engine's methods are called on
    result,     \* what the last call returned, and what it was called on
    ops,        \* engine calls made so far
    session,    \* the web layer's session: company dict and current_month
    response,   \* the web layer's last JSON response
    turns,      \* web requests served so far
    game        \* the CLI's StartupTycoonGame object and its main loop

vars == <<company, result, ops, session, response, turns, game>>

\* One reputation or product_quality unit of the model is 1/Hundredths.
Hundredths == 100

\* ------------------------------------------------------------------ bounds
MaxOps == 9
MaxCalls == 3
MaxTurns == 4
MaxDraws == 1
MaxBoundaryTurns == 1
MaxHandlerCalls == 1
MaxPromptTurns == 2
MaxFinanceCalls == 3
MaxBoostCalls == 2
MaxDeclineTurns == 5
MaxStatusTurns == 2

\* --------------------------------------------------------------- arithmetic
\* Python's int(n / d) for d > 0: truncation toward zero.
int(n, d) == IF n >= 0 THEN n \div d ELSE -((-n) \div d)

max(a, b) == IF a >= b THEN a ELSE b

\* The two ends of a random.uniform / random.randint range.
Pick(lo, hi, s) == IF s = 0 THEN lo ELSE hi

Selectors == {0, 1}
Draws == {<<a, b, c>> : a \in Selectors, b \in Selectors, c \in Selectors}
EvenDraws == {<<0, 0, 0>>, <<1, 1, 1>>}

RECURSIVE SumSeq(_)
SumSeq(s) == IF s = <<>> THEN 0 ELSE Head(s) + SumSeq(Tail(s))

\* list.remove(x): drops the first element equal to x.
RECURSIVE remove(_, _)
remove(s, x) ==
    IF s = <<>> THEN <<>>
    ELSE IF Head(s) = x THEN Tail(s)
    ELSE <<Head(s)>> \o remove(Tail(s), x)

RECURSIVE remove_all(_, _)
remove_all(s, xs) ==
    IF xs = <<>> THEN s ELSE remove_all(remove(s, Head(xs)), Tail(xs))

\* ------------------------------------------------------------------- Loan
Loan(amount, months_remaining, monthly_payment) ==
    [amount |-> amount, months_remaining |-> months_remaining,
     monthly_payment |-> monthly_payment]

\* ---------------------------------------------------------------- Company
NewCompany ==
    [balance |-> 10000, customers |-> 50, employees |-> 1,
     reputation |-> 1 * Hundredths, product_quality |-> 1 * Hundredths,
     research_protection |-> 0, monthly_revenue |-> 0,
     monthly_expenses |-> 500, month |-> 1, loans |-> <<>>,
     is_bankrupt |-> FALSE, marketing_boost |-> 0,
     no_revenue_this_month |-> FALSE, months_survived |-> 0]

get_total_debt(c) == SumSeq([i \in 1..Len(c.loans) |-> c.loans[i].amount])

calculate_score_drop_debt(c) ==
    int((c.balance + c.customers * 10) * Hundredths
        + c.reputation * 1000 + c.product_quality * 1000, Hundredths)

calculate_score(c) ==
    int((c.balance + c.customers * 10) * Hundredths
        + c.reputation * 1000 + c.product_quality * 1000
        - get_total_debt(c) * Hundredths, Hundredths)

can_afford(c, price) == c.balance >= price

is_in_debt(c) == c.balance < 0

get_monthly_loan_payments(c) ==
    SumSeq([i \in 1..Len(c.loans) |-> c.loans[i].monthly_payment])

pay_loan_no_floor(l) ==
    [l EXCEPT !.months_remaining = l.months_remaining - 1,
              !.amount = l.amount - l.monthly_payment]

\* One pass of the "update loan terms" loop over a single loan.
pay_loan(l) ==
    [l EXCEPT !.months_remaining = l.months_remaining - 1,
              !.amount = max(0, l.amount - l.monthly_payment)]

loan_completed(l) == l.months_remaining <= 0 \/ l.amount <= 0

process_loan_payments_remove_one(c) ==
    IF c.loans = <<>>
    THEN [company |-> c, empty |-> TRUE, total_payment |-> 0, paid_off |-> 0,
          completed_loans |-> <<>>]
    ELSE LET total_payment == get_monthly_loan_payments(c)
             paid == [i \in 1..Len(c.loans) |-> pay_loan(c.loans[i])]
             completed_loans == SelectSeq(paid, loan_completed)
         IN [company |-> [c EXCEPT !.balance = c.balance - total_payment,
                                   !.loans = IF completed_loans = <<>> THEN paid
                                             ELSE remove(paid, Head(completed_loans))],
             empty |-> FALSE, total_payment |-> total_payment,
             paid_off |-> Len(completed_loans),
             completed_loans |-> completed_loans]

\* Returns the company and the status string: "" (empty) when there are no
\* loans, else the total deducted and the number of loans paid off; and, to
\* make it observable, the local list completed_loans.
process_loan_payments(c) ==
    IF c.loans = <<>>
    THEN [company |-> c, empty |-> TRUE, total_payment |-> 0, paid_off |-> 0,
          completed_loans |-> <<>>]
    ELSE LET total_payment == get_monthly_loan_payments(c)
             paid == [i \in 1..Len(c.loans) |-> pay_loan(c.loans[i])]
             completed_loans == SelectSeq(paid, loan_completed)
         IN [company |-> [c EXCEPT !.balance = c.balance - total_payment,
                                   !.loans = remove_all(paid, completed_loans)],
             empty |-> FALSE, total_payment |-> total_payment,
             paid_off |-> Len(completed_loans),
             completed_loans |-> completed_loans]

take_emergency_loan_front(c) ==
    [c EXCEPT !.loans = <<Loan(5000, 3, 2000)>> \o c.loans,
              !.balance = c.balance + 5000]

take_emergency_loan(c) ==
    [c EXCEPT !.loans = Append(c.loans, Loan(5000, 3, 2000)),
              !.balance = c.balance + 5000]

process_monthly_finances_keeps_flag(c, r) ==
    LET revenue == IF c.no_revenue_this_month THEN 0
                   ELSE int(c.customers * c.product_quality * c.reputation * r,
                            Hundredths * Hundredths)
        expenses == max(100, 500 + c.employees * 2000)
    IN [c EXCEPT !.monthly_revenue = revenue,
                 !.monthly_expenses = expenses,
                 !.balance = c.balance + (revenue - expenses),
                 !.months_survived = c.month]

process_monthly_finances_stale_expenses(c, r) ==
    LET revenue == IF c.no_revenue_this_month THEN 0
                   ELSE int(c.customers * c.product_quality * c.reputation * r,
                            Hundredths * Hundredths)
        expenses == max(100, c.monthly_expenses)
    IN [c EXCEPT !.monthly_revenue = revenue,
                 !.no_revenue_this_month = FALSE,
                 !.monthly_expenses = expenses,
                 !.balance = c.balance + (revenue - expenses),
                 !.months_survived = c.month]

\* r is base_revenue_per_customer = 5 + random.uniform(0, 3).
process_monthly_finances(c, r) ==
    LET revenue == IF c.no_revenue_this_month THEN 0
                   ELSE int(c.customers * c.product_quality * c.reputation * r,
                            Hundredths * Hundredths)
        expenses == max(100, 500 + c.employees * 2000)
    IN [c EXCEPT !.monthly_revenue = revenue,
                 !.no_revenue_this_month = FALSE,
                 !.monthly_expenses = expenses,
                 !.balance = c.balance + (revenue - expenses),
                 !.months_survived = c.month]

RevenueFactors == {5, 8}
\* ------------------------------------------------- ActionType, GameAction
NORMAL == {"marketing", "development", "hiring", "research", "expansion",
           "nothing"}
SPECIAL == {"take_loan", "go_bankrupt"}
ActionType == NORMAL \cup SPECIAL

\* self.actions[action_type].cost
cost(a) ==
    CASE a = "marketing" -> 1500
      [] a = "development" -> 2000
      [] a = "hiring" -> 3000
      [] a = "research" -> 1000
      [] a = "expansion" -> 4000
      [] a = "nothing" -> 0
      [] a = "take_loan" -> 0
      [] a = "go_bankrupt" -> 0

apply_effect_boost_not_consumed(c, a, u) ==
    CASE a = "marketing" ->
           LET boosted == c.marketing_boost > 0
               customer_gain == Pick(15, 35, u[1]) * (IF boosted THEN 2 ELSE 1)
               reputation_gain == Pick(10, 30, u[2]) * (IF boosted THEN 2 ELSE 1)
           IN [c EXCEPT !.customers = @ + customer_gain,
                        !.reputation = @ + reputation_gain]
      [] a = "development" ->
           [c EXCEPT !.product_quality = @ + Pick(30, 50, u[1]),
                     !.customers = @ + Pick(5, 15, u[2])]
      [] a = "hiring" ->
           [c EXCEPT !.employees = @ + 1,
                     !.customers = @ + Pick(8, 20, u[1]),
                     !.product_quality = @ + Pick(10, 20, u[2])]
      [] a = "research" ->
           [c EXCEPT !.research_protection = @ + 1,
                     !.customers = @ + Pick(5, 12, u[1])]
      [] a = "expansion" ->
           [c EXCEPT !.customers = @ + Pick(25, 45, u[1]),
                     !.reputation = @ + Pick(20, 40, u[2]),
                     !.product_quality = @ + Pick(20, 40, u[3]),
                     !.employees = @ + 1]
      [] a = "nothing" ->
           \* u[1] = 1: random.random() < 0.3
           IF u[1] = 1 THEN [c EXCEPT !.customers = @ + Pick(3, 8, u[2])]
           ELSE c

\* The effect of a NORMAL action on a company whose balance the cost has
\* already left.  u selects the ends of the action's random ranges, in the
\* order the source draws them.
apply_effect(c, a, u) ==
    CASE a = "marketing" ->
           LET boosted == c.marketing_boost > 0
               customer_gain == Pick(15, 35, u[1]) * (IF boosted THEN 2 ELSE 1)
               reputation_gain == Pick(10, 30, u[2]) * (IF boosted THEN 2 ELSE 1)
           IN [c EXCEPT !.marketing_boost = IF boosted THEN @ - 1 ELSE @,
                        !.customers = @ + customer_gain,
                        !.reputation = @ + reputation_gain]
      [] a = "development" ->
           [c EXCEPT !.product_quality = @ + Pick(30, 50, u[1]),
                     !.customers = @ + Pick(5, 15, u[2])]
      [] a = "hiring" ->
           [c EXCEPT !.employees = @ + 1,
                     !.customers = @ + Pick(8, 20, u[1]),
                     !.product_quality = @ + Pick(10, 20, u[2])]
      [] a = "research" ->
           [c EXCEPT !.research_protection = @ + 1,
                     !.customers = @ + Pick(5, 12, u[1])]
      [] a = "expansion" ->
           [c EXCEPT !.customers = @ + Pick(25, 45, u[1]),
                     !.reputation = @ + Pick(20, 40, u[2]),
                     !.product_quality = @ + Pick(20, 40, u[3]),
                     !.employees = @ + 1]
      [] a = "nothing" ->
           \* u[1] = 1: random.random() < 0.3
           IF u[1] = 1 THEN [c EXCEPT !.customers = @ + Pick(3, 8, u[2])]
           ELSE c

\* Returns the company and the kind of narration: "loan", "bankrupt",
\* "cannot_afford", or "invested".
execute_action_effect_first(c, a, u) ==
    IF a = "take_loan"
    THEN [company |-> take_emergency_loan(c), narration |-> "loan"]
    ELSE IF a = "go_bankrupt"
    THEN [company |-> [c EXCEPT !.is_bankrupt = TRUE], narration |-> "bankrupt"]
    ELSE IF ~can_afford(c, cost(a))
    THEN [company |-> apply_effect(c, a, u), narration |-> "cannot_afford"]
    ELSE [company |-> apply_effect([c EXCEPT !.balance = @ - cost(a)], a, u),
          narration |-> "invested"]

execute_action_bankruptcy_clears_balance(c, a, u) ==
    IF a = "take_loan"
    THEN [company |-> take_emergency_loan(c), narration |-> "loan"]
    ELSE IF a = "go_bankrupt"
    THEN [company |-> [c EXCEPT !.is_bankrupt = TRUE, !.balance = 0],
          narration |-> "bankrupt"]
    ELSE IF ~can_afford(c, cost(a))
    THEN [company |-> c, narration |-> "cannot_afford"]
    ELSE [company |-> apply_effect([c EXCEPT !.balance = @ - cost(a)], a, u),
          narration |-> "invested"]

execute_action(c, a, u) ==
    IF a = "take_loan"
    THEN [company |-> take_emergency_loan(c), narration |-> "loan"]
    ELSE IF a = "go_bankrupt"
    THEN [company |-> [c EXCEPT !.is_bankrupt = TRUE], narration |-> "bankrupt"]
    ELSE IF ~can_afford(c, cost(a))
    THEN [company |-> c, narration |-> "cannot_afford"]
    ELSE [company |-> apply_effect([c EXCEPT !.balance = @ - cost(a)], a, u),
          narration |-> "invested"]

\* check_bankruptcy: "allow some debt"
check_bankruptcy(c) == c.balance < -5000
\* ======================================================= SwissEventManager
\* Every handler takes the company and the values its random calls return,
\* in the order the source draws them, and returns the mutated company.

economic_boom_event(c, customer_gain) ==
    [c EXCEPT !.marketing_boost = 2, !.customers = @ + customer_gain]

recession_event_no_floor(c) ==
    LET customer_loss == max(1, int(c.customers * 10, 100))
    IN [c EXCEPT !.customers = @ - customer_loss]

recession_event(c) ==
    LET customer_loss == max(1, int(c.customers * 10, 100))
    IN [c EXCEPT !.customers = max(0, @ - customer_loss)]

interest_rate_rise_event(c) == [c EXCEPT !.monthly_expenses = @ + 500]

tax_reduction_event(c) == [c EXCEPT !.monthly_expenses = max(100, @ - 500)]

hsg_career_fair_event(c, customer_gain, reputation_gain) ==
    [c EXCEPT !.customers = @ + customer_gain,
              !.reputation = @ + reputation_gain]

\* One draw: the gain if product_quality > 2.0, else the loss.
hsg_library_crisis_event(c, customer_gain, customer_loss) ==
    IF c.product_quality > 2 * Hundredths
    THEN [c EXCEPT !.customers = @ + customer_gain]
    ELSE [c EXCEPT !.customers = max(0, @ - customer_loss)]

trischli_disaster_event(c, per_employee) ==
    [c EXCEPT !.balance = @ - c.employees * per_employee]

trischli_success_event(c, customer_gain, reputation_gain) ==
    [c EXCEPT !.customers = @ + customer_gain,
              !.reputation = @ + reputation_gain]

olma_partnership_event(c, revenue_boost, customer_gain) ==
    [c EXCEPT !.balance = @ + revenue_boost, !.customers = @ + customer_gain]

rosenberg_investment_event(c, investment) ==
    IF c.reputation > 250 THEN [c EXCEPT !.balance = @ + investment] ELSE c

\* positive: random.random() < 0.7
drei_weihern_party_event(c, positive, customer_gain, reputation_gain, damage) ==
    IF positive
    THEN [c EXCEPT !.customers = @ + customer_gain,
                   !.reputation = @ + reputation_gain]
    ELSE [c EXCEPT !.balance = @ - damage]

startup_award_event(c, customer_gain) ==
    [c EXCEPT !.balance = @ + 3000, !.reputation = @ + 50,
              !.customers = @ + customer_gain]

viral_tiktok_event(c, customer_gain, reputation_gain) ==
    [c EXCEPT !.customers = @ + customer_gain,
              !.reputation = @ + reputation_gain]

good_press_event(c, customer_gain) ==
    [c EXCEPT !.reputation = @ + 30, !.customers = @ + customer_gain]

innovation_grant_event(c, grant) == [c EXCEPT !.balance = @ + grant]

tourist_boom_event(c, revenue_boost, customer_gain) ==
    [c EXCEPT !.balance = @ + revenue_boost, !.customers = @ + customer_gain]

server_crash_event_no_floor(c, quality_loss, reputation_loss, customer_loss) ==
    [c EXCEPT !.product_quality = @ - quality_loss,
              !.reputation = max(10, @ - reputation_loss),
              !.customers = max(0, @ - customer_loss)]

server_crash_event(c, quality_loss, reputation_loss, customer_loss) ==
    [c EXCEPT !.product_quality = max(10, @ - quality_loss),
              !.reputation = max(10, @ - reputation_loss),
              !.customers = max(0, @ - customer_loss)]

legal_fine_event(c, drawn_fine, reputation_loss) ==
    LET fine == IF c.research_protection > 0
                THEN max(500, drawn_fine - c.research_protection * 300)
                ELSE drawn_fine
    IN [c EXCEPT !.balance = @ - fine, !.reputation = @ - reputation_loss]

employee_quits_event_unguarded(c, quality_loss, customer_loss) ==
    [c EXCEPT !.employees = @ - 1,
              !.product_quality = max(10, @ - quality_loss),
              !.customers = max(0, @ - customer_loss)]

employee_quits_event(c, quality_loss, customer_loss) ==
    IF c.employees <= 1 THEN c
    ELSE [c EXCEPT !.employees = @ - 1,
                   !.product_quality = max(10, @ - quality_loss),
                   !.customers = max(0, @ - customer_loss)]

big_customer_leaves_event(c, customer_loss, revenue_loss, reputation_loss) ==
    [c EXCEPT !.customers = max(0, @ - customer_loss),
              !.balance = @ - revenue_loss,
              !.reputation = @ - reputation_loss]

social_media_shitstorm_event(c, reputation_loss, customer_loss) ==
    [c EXCEPT !.reputation = max(10, @ - reputation_loss),
              !.customers = max(0, @ - customer_loss)]

fraud_accusations_event(c, reputation_loss, fine, customer_loss) ==
    [c EXCEPT !.reputation = max(10, @ - reputation_loss),
              !.balance = @ - fine,
              !.customers = max(0, @ - customer_loss)]

ceo_affair_event(c, reputation_loss, customer_loss, legal_costs) ==
    [c EXCEPT !.reputation = max(10, @ - reputation_loss),
              !.customers = max(0, @ - customer_loss),
              !.balance = @ - legal_costs,
              !.employees = IF c.employees > 2 THEN @ - 1 ELSE @]

bureaucracy_event(c, delay_cost) ==
    IF c.research_protection > 0 THEN c
    ELSE [c EXCEPT !.balance = @ - delay_cost]

cheese_crisis_event(c, cost_increase) == [c EXCEPT !.balance = @ - cost_increase]

startup_dog_mascot_event(c, customer_gain, reputation_gain, monthly_costs) ==
    [c EXCEPT !.customers = @ + customer_gain,
              !.reputation = @ + reputation_gain,
              !.monthly_expenses = @ + monthly_costs]

intern_deletes_data_event(c, customer_loss, quality_loss, recovery_costs) ==
    [c EXCEPT !.customers = max(0, @ - customer_loss),
              !.product_quality = max(10, @ - quality_loss),
              !.balance = @ - recovery_costs]

founder_misses_pitch_event(c, reputation_loss) ==
    [c EXCEPT !.no_revenue_this_month = TRUE,
              !.reputation = max(10, @ - reputation_loss)]

comic_sans_code_event(c, quality_loss, reputation_gain) ==
    [c EXCEPT !.product_quality = max(10, @ - quality_loss),
              !.reputation = @ + reputation_gain]

\* What a handler hands back: a narration string (interactive FALSE) or an
\* 'interactive' prompt dict, with the company as the handler left it.
Text(c) == [company |-> c, interactive |-> FALSE, event_name |-> "", data |-> 0]
Prompt(c, name, data) ==
    [company |-> c, interactive |-> TRUE, event_name |-> name, data |-> data]

trade_fair_gamble_event(c) ==
    IF c.balance < 1000 THEN Text(c) ELSE Prompt(c, "trade_fair", 1000)

\* questions[q]["correct"] for the four questions
quiz_correct == <<"C", "B", "A", "B">>

startup_quiz_event(c, q) == Prompt(c, "quiz", quiz_correct[q])

dragons_den_event_charged_at_trigger(c) ==
    IF c.balance < 500 THEN Text(c)
    ELSE Prompt([c EXCEPT !.balance = @ - 500], "dragons_den", 500)

dragons_den_event(c) ==
    IF c.balance < 500 THEN Text(c) ELSE Prompt(c, "dragons_den", 500)
\* setup_events: self.events in table order; probability in hundredths.
events ==
    << [name |-> "Economic Boom", probability |-> 3],
       [name |-> "Recession Hit", probability |-> 3],
       [name |-> "Interest Rate Rise", probability |-> 4],
       [name |-> "Tax Reduction", probability |-> 4],
       [name |-> "HSG Career Fair Boom", probability |-> 6],
       [name |-> "HSG Library Crisis", probability |-> 5],
       [name |-> "Trischli Night Disaster", probability |-> 7],
       [name |-> "Trischli Marketing Success", probability |-> 6],
       [name |-> "Olma Bratwurst Partnership", probability |-> 6],
       [name |-> "Rosenberg Institute Investment", probability |-> 4],
       [name |-> "Drei Weihern Summer Party", probability |-> 8],
       [name |-> "Startup Award", probability |-> 5],
       [name |-> "Viral TikTok", probability |-> 6],
       [name |-> "Good Press", probability |-> 8],
       [name |-> "St. Gallen Innovation Grant", probability |-> 5],
       [name |-> "Tourist Season Boom", probability |-> 7],
       [name |-> "Server Crash", probability |-> 8],
       [name |-> "Legal Fine", probability |-> 7],
       [name |-> "Employee Quits", probability |-> 9],
       [name |-> "Big Customer Leaves", probability |-> 6],
       [name |-> "Social Media Shitstorm", probability |-> 5],
       [name |-> "Fraud Accusations", probability |-> 4],
       [name |-> "CEO Affair", probability |-> 3],
       [name |-> "Swiss Bureaucracy Strike", probability |-> 10],
       [name |-> "Appenzeller Cheese Crisis", probability |-> 4],
       [name |-> "Startup Dog", probability |-> 7],
       [name |-> "Intern Disaster", probability |-> 8],
       [name |-> "Founder Misses Pitch", probability |-> 6],
       [name |-> "Comic Sans Code", probability |-> 5],
       [name |-> "Trade Fair Gamble", probability |-> 5],
       [name |-> "Startup Quiz", probability |-> 4],
       [name |-> "Dragons Den", probability |-> 3] >>

\* event_func(company) of table entry i, with the draws u picks.
call_handler(i, c, u) ==
    CASE i = 1 -> Text(economic_boom_event(c, Pick(15, 25, u[1])))
      [] i = 2 -> Text(recession_event(c))
      [] i = 3 -> Text(interest_rate_rise_event(c))
      [] i = 4 -> Text(tax_reduction_event(c))
      [] i = 5 -> Text(hsg_career_fair_event(c, Pick(20, 40, u[1]), Pick(20, 40, u[2])))
      [] i = 6 -> Text(hsg_library_crisis_event(c, Pick(30, 50, u[1]), Pick(5, 15, u[1])))
      [] i = 7 -> Text(trischli_disaster_event(c, Pick(200, 500, u[1])))
      [] i = 8 -> Text(trischli_success_event(c, Pick(25, 45, u[1]), Pick(10, 30, u[2])))
      [] i = 9 -> Text(olma_partnership_event(c, Pick(1500, 3000, u[1]), Pick(15, 30, u[2])))
      [] i = 10 -> Text(rosenberg_investment_event(c, Pick(5000, 8000, u[1])))
      [] i = 11 -> Text(drei_weihern_party_event(c, u[1] = 1, Pick(20, 40, u[2]),
                                                 Pick(20, 40, u[3]), Pick(800, 1500, u[2])))
      [] i = 12 -> Text(startup_award_event(c, Pick(10, 20, u[1])))
      [] i = 13 -> Text(viral_tiktok_event(c, Pick(70, 90, u[1]), Pick(30, 50, u[2])))
      [] i = 14 -> Text(good_press_event(c, Pick(15, 25, u[1])))
      [] i = 15 -> Text(innovation_grant_event(c, Pick(2000, 5000, u[1])))
      [] i = 16 -> Text(tourist_boom_event(c, Pick(2000, 4000, u[1]), Pick(15, 35, u[2])))
      [] i = 17 -> Text(server_crash_event(c, Pick(15, 25, u[1]), Pick(15, 25, u[2]),
                                           Pick(8, 15, u[3])))
      [] i = 18 -> Text(legal_fine_event(c, Pick(1800, 2200, u[1]), Pick(10, 20, u[2])))
      [] i = 19 -> Text(employee_quits_event(c, Pick(10, 20, u[1]), Pick(5, 12, u[2])))
      [] i = 20 -> Text(big_customer_leaves_event(c, Pick(25, 35, u[1]), Pick(800, 1200, u[2]),
                                                  Pick(10, 20, u[3])))
      [] i = 21 -> Text(social_media_shitstorm_event(c, Pick(40, 60, u[1]), Pick(20, 40, u[2])))
      [] i = 22 -> Text(fraud_accusations_event(c, Pick(80, 120, u[1]), Pick(1200, 1800, u[2]),
                                                Pick(15, 30, u[3])))
      [] i = 23 -> Text(ceo_affair_event(c, Pick(30, 50, u[1]), Pick(8, 20, u[2]),
                                         Pick(800, 1500, u[3])))
      [] i = 24 -> Text(bureaucracy_event(c, Pick(1000, 2500, u[1])))
      [] i = 25 -> Text(cheese_crisis_event(c, Pick(500, 1200, u[1])))
      [] i = 26 -> Text(startup_dog_mascot_event(c, Pick(18, 22, u[1]), Pick(25, 35, u[2]),
                                                 Pick(150, 250, u[3])))
      [] i = 27 -> Text(intern_deletes_data_event(c, Pick(8, 12, u[1]), Pick(10, 20, u[2]),
                                                  Pick(500, 1000, u[3])))
      [] i = 28 -> Text(founder_misses_pitch_event(c, Pick(20, 30, u[1])))
      [] i = 29 -> Text(comic_sans_code_event(c, Pick(15, 25, u[1]), Pick(15, 25, u[2])))
      [] i = 30 -> trade_fair_gamble_event(c)
      [] i = 31 -> startup_quiz_event(c, Pick(1, 4, u[1]))
      [] i = 32 -> dragons_den_event(c)

\* The loop of trigger_random_event from entry i on, cumulative_prob being
\* the sum over the entries before i: the entry it returns from for this
\* roll, or 0 when it runs off the end of the table (the fallback narration).
RECURSIVE scan(_, _, _)
scan(i, cumulative_prob, roll) ==
    IF i > Len(events) THEN 0
    ELSE IF roll <= cumulative_prob + events[i].probability THEN i
    ELSE scan(i + 1, cumulative_prob + events[i].probability, roll)

selected(roll) == scan(1, 0, roll)

\* roll is random.random() in hundredths.  event 0: the fallback
\* "Perfect day in beautiful St. Gallen!" narration.
trigger_random_event(c, roll, u) ==
    LET i == selected(roll)
    IN IF i = 0 THEN Text(c) @@ [event |-> 0]
       ELSE call_handler(i, c, u) @@ [event |-> i]

\* random.random() returns a value in [0.0, 1.0)
Rolls == 0..99
\* ===================================================== engine-level calls
\* The engine's methods called directly on one Company object, as a test or
\* either front end calls them.

NoResult == [op |-> "none", streak |-> 0, start |-> NewCompany]

NoSession == [active |-> FALSE]
NoResponse == [handler |-> "none"]

\* No CLI game object exists.
NoGame == [game_mode |-> "none"]

WebIdle ==
    /\ session = NoSession /\ response = NoResponse /\ turns = 0
    /\ game = NoGame

InitEngine ==
    /\ company = NewCompany
    /\ result = NoResult
    /\ ops = 0
    /\ WebIdle

\* execute_action(company, ActionType.TAKE_LOAN)
TakeLoan ==
    /\ ops < MaxOps
    /\ LET out == execute_action(company, "take_loan", <<0, 0, 0>>)
       IN /\ company' = out.company
          /\ result' = [op |-> "take_emergency_loan", before |-> company,
                        narration |-> out.narration,
                        streak |-> 0, start |-> out.company]
    /\ ops' = ops + 1
    /\ UNCHANGED <<session, response, turns, game>>

\* company.process_loan_payments(); streak counts the consecutive calls and
\* start is the company the first of them was made on.
ProcessLoanPayments ==
    /\ ops < MaxOps
    /\ LET out == process_loan_payments(company)
       IN /\ company' = out.company
          /\ result' = [op |-> "process_loan_payments", before |-> company,
                        empty |-> out.empty,
                        total_payment |-> out.total_payment,
                        paid_off |-> out.paid_off,
                        completed_loans |-> out.completed_loans,
                        streak |-> result.streak + 1, start |-> result.start]
    /\ ops' = ops + 1
    /\ UNCHANGED <<session, response, turns, game>>

\* company.process_monthly_finances()
ProcessMonthlyFinances ==
    /\ ops < MaxOps
    /\ \E r \in RevenueFactors :
         LET out == process_monthly_finances(company, r)
         IN /\ company' = out
            /\ result' = [op |-> "process_monthly_finances", before |-> company,
                          streak |-> 0, start |-> out]
    /\ ops' = ops + 1
    /\ UNCHANGED <<session, response, turns, game>>

NextLoan == TakeLoan \/ ProcessLoanPayments \/ ProcessMonthlyFinances

SpecLoan == InitEngine /\ [][NextLoan]_vars

\* game.execute_action(company, action_type) for every ActionType
ExecuteAction ==
    /\ ops < MaxCalls
    /\ \E a \in ActionType, u \in Draws :
         LET out == execute_action(company, a, u)
         IN /\ company' = out.company
            /\ result' = [op |-> "execute_action", before |-> company,
                          action |-> a, narration |-> out.narration,
                          streak |-> 0, start |-> out.company]
    /\ ops' = ops + 1
    /\ UNCHANGED <<session, response, turns, game>>

NextAction == ExecuteAction

SpecAction == InitEngine /\ [][NextAction]_vars
\* Company.calculate_score() applied to a company drawn from a bounded set
\* of field values (the new company among them).
ScoreInputs ==
    {[NewCompany EXCEPT !.balance = b, !.customers = n, !.employees = e,
                        !.reputation = rep, !.product_quality = q,
                        !.loans = ls] :
        b \in {-5001, 0, 10000}, n \in {0, 50, 137}, e \in {1, 3},
        rep \in {-10, 10, 100, 255}, q \in {10, 100, 235},
        ls \in {<<>>, <<Loan(5000, 3, 2000)>>,
                <<Loan(1000, 1, 2000), Loan(3000, 2, 2000)>>}}

InitScore ==
    /\ company \in ScoreInputs
    /\ result = NoResult
    /\ ops = 0
    /\ WebIdle

CalculateScore ==
    /\ result' = [op |-> "calculate_score", before |-> company,
                  value |-> calculate_score(company),
                  streak |-> 0, start |-> company]
    /\ UNCHANGED <<company, ops, session, response, turns, game>>

NextScore == CalculateScore

SpecScore == InitScore /\ [][NextScore]_vars

\* event_manager.trigger_random_event(company) as a function of the draw,
\* including draws random.random() cannot return (1.0 and beyond the sum).
TableRolls == 0..182

TriggerRandomEvent ==
    /\ ops < MaxDraws
    /\ \E roll \in TableRolls, u \in EvenDraws :
         LET out == trigger_random_event(company, roll, u)
         IN /\ company' = out.company
            /\ result' = [op |-> "trigger_random_event", before |-> company,
                          roll |-> roll, event |-> out.event,
                          interactive |-> out.interactive,
                          streak |-> 0, start |-> out.company]
    /\ ops' = ops + 1
    /\ UNCHANGED <<session, response, turns, game>>

NextTable == TriggerRandomEvent

SpecTable == InitEngine /\ [][NextTable]_vars

\* The event handlers and the actions called directly on a company whose
\* fields are at the values the clamps and guards of the handlers test:
\* product_quality at the floor, just above it and above 2.0, no customers
\* and few, one to three employees, a balance below the interactive events'
\* costs.
HandlerInputs ==
    {NewCompany} \cup
    {[NewCompany EXCEPT !.product_quality = q, !.customers = n,
                        !.employees = e, !.reputation = rep,
                        !.balance = b] :
        q \in {10, 30, 210}, n \in {0, 4, 50}, e \in {1, 2, 3},
        rep \in {5, 100}, b \in {400, 10000}}

InitHandlers ==
    /\ company \in HandlerInputs
    /\ result = NoResult
    /\ ops = 0
    /\ WebIdle

\* event_func(company) for any entry of the table
CallHandler ==
    /\ ops < MaxHandlerCalls
    /\ \E i \in 1..Len(events), u \in EvenDraws :
         LET out == call_handler(i, company, u)
         IN /\ company' = out.company
            /\ result' = [op |-> "call_handler", before |-> company,
                          event |-> i, name |-> events[i].name,
                          interactive |-> out.interactive,
                          streak |-> 0, start |-> out.company]
    /\ ops' = ops + 1
    /\ UNCHANGED <<session, response, turns, game>>

\* game.execute_action(company, action_type) between the handlers
ActOnCompany ==
    /\ ops < MaxHandlerCalls
    /\ \E a \in ActionType, u \in EvenDraws :
         LET out == execute_action(company, a, u)
         IN /\ company' = out.company
            /\ result' = [op |-> "execute_action", before |-> company,
                          action |-> a, narration |-> out.narration,
                          streak |-> 0, start |-> out.company]
    /\ ops' = ops + 1
    /\ UNCHANGED <<session, response, turns, game>>

NextHandlers == CallHandler \/ ActOnCompany

SpecHandlers == InitHandlers /\ [][NextHandlers]_vars

\* The finance settlement between the handlers that write the fields it
\* reads or overwrites: Interest Rate Rise, Tax Reduction and Startup Dog
\* (monthly_expenses) and Founder Misses Pitch (no_revenue_this_month).
FinanceInputs ==
    {[NewCompany EXCEPT !.customers = n, !.employees = e, !.reputation = rep,
                        !.product_quality = q] :
        n \in {0, 50}, e \in {1, 3}, rep \in {10, 100, 130}, q \in {10, 100}}

InitFinance ==
    /\ company \in FinanceInputs
    /\ result = NoResult
    /\ ops = 0
    /\ WebIdle

FinanceEvents ==
    {i \in 1..Len(events) :
        events[i].name \in {"Interest Rate Rise", "Tax Reduction",
                            "Startup Dog", "Founder Misses Pitch"}}

\* event_func(company) for one of these entries
CallFinanceHandler ==
    /\ ops < MaxFinanceCalls
    /\ \E i \in FinanceEvents, u \in EvenDraws :
         LET out == call_handler(i, company, u)
         IN /\ company' = out.company
            /\ result' = [op |-> "call_handler", before |-> company,
                          event |-> i, name |-> events[i].name,
                          interactive |-> out.interactive,
                          streak |-> 0, start |-> out.company]
    /\ ops' = ops + 1
    /\ UNCHANGED <<session, response, turns, game>>

\* company.process_monthly_finances(); r is the drawn revenue per customer,
\* streak counts the consecutive settlements.
SettleFinances ==
    /\ ops < MaxFinanceCalls
    /\ \E r \in RevenueFactors :
         LET out == process_monthly_finances(company, r)
         IN /\ company' = out
            /\ result' = [op |-> "process_monthly_finances",
                          before |-> company, r |-> r,
                          streak |-> IF result.op = "process_monthly_finances"
                                     THEN result.streak + 1 ELSE 1,
                          start |-> out]
    /\ ops' = ops + 1
    /\ UNCHANGED <<session, response, turns, game>>

NextFinance == CallFinanceHandler \/ SettleFinances

SpecFinance == InitFinance /\ [][NextFinance]_vars

\* Every operation of the engine on a company with and without a running
\* marketing boost, with and without the money for a campaign.
BoostInputs ==
    {[NewCompany EXCEPT !.balance = b, !.marketing_boost = k] :
        b \in {1000, 10000}, k \in {0, 1, 2}}

InitBoost ==
    /\ company \in BoostInputs
    /\ result = NoResult
    /\ ops = 0
    /\ WebIdle

\* event_func(company) for any entry of the table
TriggerAnyEvent ==
    /\ ops < MaxBoostCalls
    /\ \E i \in 1..Len(events), u \in EvenDraws :
         LET out == call_handler(i, company, u)
         IN /\ company' = out.company
            /\ result' = [op |-> "call_handler", before |-> company,
                          event |-> i, name |-> events[i].name,
                          interactive |-> out.interactive,
                          streak |-> 0, start |-> out.company]
    /\ ops' = ops + 1
    /\ UNCHANGED <<session, response, turns, game>>

\* game.execute_action(company, action_type); u are the draws it made
TakeAction ==
    /\ ops < MaxBoostCalls
    /\ \E a \in ActionType, u \in EvenDraws :
         LET out == execute_action(company, a, u)
         IN /\ company' = out.company
            /\ result' = [op |-> "execute_action", before |-> company,
                          action |-> a, u |-> u, narration |-> out.narration,
                          streak |-> 0, start |-> out.company]
    /\ ops' = ops + 1
    /\ UNCHANGED <<session, response, turns, game>>

\* game.process_monthly_finances(company): the settlement, then the loan
\* payments
SettleMonth ==
    /\ ops < MaxBoostCalls
    /\ \E r \in RevenueFactors :
         LET out == process_loan_payments(process_monthly_finances(company, r))
         IN /\ company' = out.company
            /\ result' = [op |-> "game.process_monthly_finances",
                          before |-> company, r |-> r,
                          streak |-> 0, start |-> out.company]
    /\ ops' = ops + 1
    /\ UNCHANGED <<session, response, turns, game>>

NextBoost == TriggerAnyEvent \/ TakeAction \/ SettleMonth

SpecBoost == InitBoost /\ [][NextBoost]_vars

\* ====================================================== StartupTycoonGame
\* The command-line game.  game holds the fields of the StartupTycoonGame
\* object, and with them pc, the position of run_game in its loop, and
\* calls, the number of play_turn calls made so far.

max_months == 12

\* StartupTycoonGame.__init__
new_game ==
    [game_mode |-> "solo", companies |-> <<>>, current_month |-> 1,
     current_player_index |-> 0, game_over |-> FALSE,
     pc |-> "setup_game", calls |-> 0]

\* setup_game: solo mode creates one company, multiplayer mode 2 to 4
Players == 1..4

setup_game(g, n) ==
    [g EXCEPT !.game_mode = IF n = 1 THEN "solo" ELSE "multiplayer",
              !.companies = [i \in 1..n |-> NewCompany]]

advance_month_every_call(g) ==
    LET moved ==
            IF g.game_mode = "solo"
            THEN [g EXCEPT !.current_month = @ + 1]
            ELSE [g EXCEPT !.current_player_index =
                               (g.current_player_index + 1) % Len(g.companies),
                           !.current_month = @ + 1]
    IN IF moved.current_month > max_months
       THEN [moved EXCEPT !.game_over = TRUE]
       ELSE moved

advance_month(g) ==
    LET index == (g.current_player_index + 1) % Len(g.companies)
        moved ==
            IF g.game_mode = "solo"
            THEN [g EXCEPT !.current_month = @ + 1]
            ELSE [g EXCEPT !.current_player_index = index,
                           !.current_month = IF index = 0 THEN @ + 1 ELSE @]
    IN IF moved.current_month > max_months
       THEN [moved EXCEPT !.game_over = TRUE]
       ELSE moved

\* bind(e, F) is F applied to the value of e: one statement of a method,
\* followed by the statements after it.
bind(e, F(_)) == CHOOSE y \in {F(x) : x \in {e}} : TRUE

\* play_turn for the current player.  debt_choice is the player's answer
\* when the company is in debt, normal_choice the answer otherwise; roll,
\* ua, ue and r are the draws of the event, the action, the handler and the
\* revenue.  outcome names the return the call took.
play_turn(g, debt_choice, normal_choice, roll, ua, ue, r) ==
    LET i == g.current_player_index + 1
        put(c) == [g EXCEPT !.companies[i] = c]
    IN
    bind([g.companies[i] EXCEPT !.month = g.current_month], LAMBDA loaded :
      IF loaded.is_bankrupt
      THEN [game |-> put(loaded), outcome |-> "skipped"]
      ELSE IF check_bankruptcy(loaded)
      THEN [game |-> put([loaded EXCEPT !.is_bankrupt = TRUE]),
            outcome |-> "went_bankrupt"]
      ELSE
    bind(IF is_in_debt(loaded) THEN debt_choice ELSE normal_choice,
         LAMBDA action_type :
    bind(execute_action(loaded, action_type, ua), LAMBDA acted :
      IF acted.company.is_bankrupt
      THEN [game |-> put(acted.company), outcome |-> "declared_bankrupt"]
      ELSE
    bind(trigger_random_event(acted.company, roll, ue), LAMBDA ev :
    bind(process_monthly_finances(ev.company, r), LAMBDA financed :
    bind(process_loan_payments(financed), LAMBDA paid :
      [game |-> put(paid.company), outcome |-> "played"]))))))

InitCLI ==
    /\ game = new_game
    /\ company = NewCompany
    /\ result = NoResult
    /\ ops = 0
    /\ session = NoSession
    /\ response = NoResponse
    /\ turns = 0

\* run_game: self.setup_game()
SetupGame ==
    /\ game.pc = "setup_game"
    /\ \E n \in Players :
         game' = [setup_game(game, n) EXCEPT !.pc = "play_turn"]
    /\ UNCHANGED <<company, result, ops, session, response, turns>>

\* The answers and draws of the games explored: idle players; the first
\* two companies are fined every month (Legal Fine) and, once in debt,
\* borrow or give up; the others win the Innovation Grant every month.
CLINormalChoices == {"nothing"}
CLIDebtChoices == SPECIAL
CLIRolls(player) == IF player < 2 THEN {99} ELSE {78}
CLIRevenueFactors == {5}

\* run_game: self.play_turn(), while not self.game_over
PlayTurn ==
    /\ game.pc = "play_turn"
    /\ ~game.game_over
    /\ \E debt_choice \in CLIDebtChoices, normal_choice \in CLINormalChoices,
          roll \in CLIRolls(game.current_player_index),
          r \in CLIRevenueFactors :
         LET out == play_turn(game, debt_choice, normal_choice, roll,
                              <<0, 0, 0>>, <<1, 1, 1>>, r)
         IN /\ game' = [out.game EXCEPT !.pc = "advance_month",
                                         !.calls = @ + 1]
            /\ company' = out.game.companies[game.current_player_index + 1]
            /\ result' = [op |-> "play_turn",
                          player |-> game.current_player_index,
                          month |-> game.current_month,
                          outcome |-> out.outcome,
                          streak |-> 0, start |-> NewCompany]
    /\ UNCHANGED <<ops, session, response, turns>>

\* run_game: self.advance_month(), then the test of the while loop
AdvanceMonth ==
    /\ game.pc = "advance_month"
    /\ LET moved == advance_month(game)
       IN game' = [moved EXCEPT !.pc = IF moved.game_over
                                       THEN "display_final_results"
                                       ELSE "play_turn"]
    /\ UNCHANGED <<company, result, ops, session, response, turns>>

NextCLI == SetupGame \/ PlayTurn \/ AdvanceMonth

SpecCLI == InitCLI /\ [][NextCLI]_vars

\* The loop runs on: every input() of play_turn is answered.
SpecCLIFair == SpecCLI /\ WF_vars(NextCLI)

\* ================================================================== app.py
\* The Flask session holds the company as a dict and current_month; every
\* request rebuilds a Company from the dict and stores it back.

company_to_dict(c) ==
    [f \in DOMAIN c \ {"monthly_revenue", "monthly_expenses"} |-> c[f]]

\* Company(owner_name) followed by setattr for every key of the dict
dict_to_company(data) ==
    [f \in DOMAIN NewCompany |->
        IF f \in DOMAIN data THEN data[f] ELSE NewCompany[f]]

start_game == [active |-> TRUE, company |-> company_to_dict(NewCompany),
               current_month |-> 1]

game_over_at_limit(current_month, c) ==
    current_month > 12 \/ c.is_bankrupt \/ c.balance <= -5000

\* step 5 of complete_turn
game_over(current_month, c) ==
    current_month > 12 \/ c.is_bankrupt \/ c.balance < -5000

invalid_action_after_month_advance(s, action_type) ==
    [session |-> [s EXCEPT !.current_month = @ + 1],
     company |-> dict_to_company(s.company),
     response |-> [handler |-> "complete_turn", status |-> 400,
                   error |-> "invalid_action", action |-> action_type]]

\* complete_turn when ActionType(action_type) raises ValueError
invalid_action(s, action_type) ==
    [session |-> s,
     company |-> dict_to_company(s.company),
     response |-> [handler |-> "complete_turn", status |-> 400,
                   error |-> "invalid_action", action |-> action_type]]

complete_turn_loans_first(s, action_type, roll, ua, ue, r) ==
    LET loaded == dict_to_company(s.company)
    IN IF action_type \notin ActionType
       THEN invalid_action(s, action_type)
       ELSE
       LET acted == execute_action(loaded, action_type, ua)
           ev == IF ~acted.company.is_bankrupt
                 THEN trigger_random_event(acted.company, roll, ue)
                 ELSE Text(acted.company) @@ [event |-> -1]
           settle == ~ev.company.is_bankrupt
           paid == process_loan_payments(
                       [ev.company EXCEPT !.month = s.current_month])
           financed == process_monthly_finances(paid.company, r)
           current_month == s.current_month + 1
           c == [(IF settle THEN financed ELSE ev.company)
                    EXCEPT !.months_survived = current_month - 1]
       IN [session |-> [active |-> TRUE, company |-> company_to_dict(c),
                        current_month |-> current_month],
           company |-> c,
           response |-> [handler |-> "complete_turn", status |-> 200,
                         action |-> action_type,
                         action_result |-> acted.narration,
                         event |-> ev.event,
                         interactive |-> ev.interactive,
                         settled |-> settle,
                         loan_status_empty |-> IF settle THEN paid.empty ELSE TRUE,
                         phases |->
                             <<[phase |-> "load", company |-> loaded],
                               [phase |-> "action", company |-> acted.company]>>
                             \o (IF ~acted.company.is_bankrupt
                                 THEN <<[phase |-> "event", company |-> ev.company]>>
                                 ELSE <<>>)
                             \o (IF settle
                                 THEN <<[phase |-> "loans", company |-> paid.company],
                                        [phase |-> "finances", company |-> financed]>>
                                 ELSE <<>>)
                             \o <<[phase |-> "month", company |-> c]>>,
                         new_month |-> current_month,
                         game_over |-> game_over(current_month, c),
                         company |-> company_to_dict(c)]]

\* /api/complete_turn on session s: ua and ue are the draws of the action
\* and of the event handler, roll the event draw, r the revenue draw.
\* event -1: no event was triggered.  phases lists the steps that ran, in
\* the order they ran, each with the company as that step left it.
complete_turn(s, action_type, roll, ua, ue, r) ==
    LET loaded == dict_to_company(s.company)
    IN IF action_type \notin ActionType
       THEN invalid_action(s, action_type)
       ELSE
       LET acted == execute_action(loaded, action_type, ua)
           ev == IF ~acted.company.is_bankrupt
                 THEN trigger_random_event(acted.company, roll, ue)
                 ELSE Text(acted.company) @@ [event |-> -1]
           settle == ~ev.company.is_bankrupt
           financed == process_monthly_finances(
                           [ev.company EXCEPT !.month = s.current_month], r)
           paid == process_loan_payments(financed)
           current_month == s.current_month + 1
           c == [(IF settle THEN paid.company ELSE ev.company)
                    EXCEPT !.months_survived = current_month - 1]
       IN [session |-> [active |-> TRUE, company |-> company_to_dict(c),
                        current_month |-> current_month],
           company |-> c,
           response |-> [handler |-> "complete_turn", status |-> 200,
                         action |-> action_type,
                         action_result |-> acted.narration,
                         event |-> ev.event,
                         interactive |-> ev.interactive,
                         settled |-> settle,
                         loan_status_empty |-> IF settle THEN paid.empty ELSE TRUE,
                         phases |->
                             <<[phase |-> "load", company |-> loaded],
                               [phase |-> "action", company |-> acted.company]>>
                             \o (IF ~acted.company.is_bankrupt
                                 THEN <<[phase |-> "event", company |-> ev.company]>>
                                 ELSE <<>>)
                             \o (IF settle
                                 THEN <<[phase |-> "finances", company |-> financed],
                                        [phase |-> "loans", company |-> paid.company]>>
                                 ELSE <<>>)
                             \o <<[phase |-> "month", company |-> c]>>,
                         new_month |-> current_month,
                         game_over |-> game_over(current_month, c),
                         company |-> company_to_dict(c)]]

InitWeb ==
    /\ company = NewCompany
    /\ result = NoResult
    /\ ops = 0
    /\ session = NoSession
    /\ response = NoResponse
    /\ turns = 0
    /\ game = NoGame

\* POST /start_game with a non-empty player name
StartGame ==
    /\ session' = start_game
    /\ company' = NewCompany
    /\ response' = [handler |-> "start_game"]
    /\ UNCHANGED <<result, ops, turns, game>>

\* POST /api/complete_turn
Turn(action_type, roll, ua, ue, r) ==
    /\ IF ~session.active
       THEN /\ response' = [handler |-> "complete_turn", status |-> 400,
                            error |-> "no_game"]
            /\ UNCHANGED <<company, session>>
       ELSE LET out == complete_turn(session, action_type, roll, ua, ue, r)
            IN /\ session' = out.session
               /\ company' = out.company
               /\ response' = out.response
    /\ turns' = turns + 1
    /\ UNCHANGED <<result, ops, game>>

\* The requests of the deep exploration: some actions, an unknown action id,
\* and draws selecting Economic Boom, Server Crash and Legal Fine.
TurnActions == {"nothing", "hiring", "take_loan", "go_bankrupt", "bogus"}
TurnRolls == {0, 95, 99}
TurnRevenueFactors == {5}

CompleteTurn ==
    /\ turns < MaxTurns
    /\ \E a \in TurnActions, roll \in TurnRolls, ue \in EvenDraws,
          r \in TurnRevenueFactors :
         Turn(a, roll, <<0, 0, 0>>, ue, r)

Next == StartGame \/ CompleteTurn

Spec == InitWeb /\ [][Next]_vars

\* One complete_turn request, with every action id, on sessions a game can
\* have stored: balances around the debt limit, first and last months, and
\* companies already bankrupt.
BoundarySessions ==
    {[active |-> TRUE,
      company |-> company_to_dict([NewCompany EXCEPT !.balance = b,
                                                     !.is_bankrupt = k]),
      current_month |-> m] :
        b \in (-2755..-2745) \cup {-7000, 10000}, k \in BOOLEAN,
        m \in {1, 11, 12}}

InitBoundary ==
    /\ session \in BoundarySessions
    /\ company = dict_to_company(session.company)
    /\ result = NoResult
    /\ ops = 0
    /\ response = NoResponse
    /\ turns = 0
    /\ game = NoGame

BoundaryRolls == {0, 48, 95, 99}

CompleteTurnAnyAction ==
    /\ turns < MaxBoundaryTurns
    /\ \E a \in ActionType \cup {"bogus"}, roll \in BoundaryRolls,
          ua \in EvenDraws, ue \in EvenDraws, r \in RevenueFactors :
         Turn(a, roll, ua, ue, r)

NextBoundary == CompleteTurnAnyAction

SpecBoundary == InitBoundary /\ [][NextBoundary]_vars

\* The web game of a company in decline: server crashes and legal fines
\* month after month, the player idling or borrowing, revenue drawn at the
\* top of its range.
DeclineActions == {"nothing", "take_loan"}
DeclineRolls == {95, 99}
DeclineRevenueFactors == {8}

CompleteTurnInDecline ==
    /\ turns < MaxDeclineTurns
    /\ \E a \in DeclineActions, roll \in DeclineRolls, ue \in EvenDraws,
          r \in DeclineRevenueFactors :
         Turn(a, roll, <<0, 0, 0>>, ue, r)

NextDecline == StartGame \/ CompleteTurnInDecline

SpecDecline == InitWeb /\ [][NextDecline]_vars

\* /api/handle_special_events on session s.  flag is event_data['correct']
\* for a quiz answer and event_data['participate'] for the Dragons Den
\* decision; u[1] = 1: random.random() < 0.5, u[2] picks the reputation
\* change.
handle_special_events(s, event_type, flag, u) ==
    LET loaded == dict_to_company(s.company)
        refused == [handler |-> "handle_special_events", status |-> 400,
                    error |-> "unknown_event_type"]
        done(c, message) ==
            [session |-> [s EXCEPT !.company = company_to_dict(c)],
             company |-> c,
             response |-> [handler |-> "handle_special_events",
                           status |-> 200, message |-> message,
                           company |-> company_to_dict(c)]]
    IN CASE event_type = "quiz_answer" ->
              IF flag
              THEN done([loaded EXCEPT !.balance = @ + 2000], "quiz_bonus")
              ELSE done(loaded, "quiz_wrong")
         [] event_type = "dragons_den_decision" ->
              IF ~flag THEN done(loaded, "declined")
              ELSE IF loaded.balance < 500 THEN done(loaded, "too_little_money")
              ELSE IF u[1] = 1
              THEN done([loaded EXCEPT !.balance = @ - 500 + 5000,
                                       !.reputation = @ + Pick(30, 50, u[2])],
                        "success")
              ELSE done([loaded EXCEPT !.balance = @ - 500,
                                       !.reputation =
                                           max(10, @ - Pick(40, 60, u[2]))],
                        "flop")
         [] OTHER -> [session |-> s, company |-> loaded, response |-> refused]

\* The web game when the event draw selects an interactive entry.  With
\* the table of setup_events the entries Trade Fair Gamble, Startup Quiz and
\* Dragons Den lie past a cumulative probability of 1.69, so these draws
\* are values random.random() returns only when it is replaced.
PromptRolls == {172, 176, 180}

CompleteTurnWithPrompt ==
    /\ turns < MaxPromptTurns
    /\ \E a \in TurnActions, roll \in PromptRolls \cup TurnRolls,
          ue \in EvenDraws, r \in TurnRevenueFactors :
         Turn(a, roll, <<0, 0, 0>>, ue, r)

\* POST /api/handle_special_events
HandleSpecialEvents ==
    /\ turns < MaxPromptTurns
    /\ \E event_type \in {"quiz_answer", "dragons_den_decision", "unknown"},
          flag \in BOOLEAN, u \in EvenDraws :
         IF ~session.active
         THEN /\ response' = [handler |-> "handle_special_events",
                              status |-> 400, error |-> "no_game"]
              /\ UNCHANGED <<company, session>>
         ELSE LET out == handle_special_events(session, event_type, flag, u)
              IN /\ session' = out.session
                 /\ company' = out.company
                 /\ response' = out.response
    /\ turns' = turns + 1
    /\ UNCHANGED <<result, ops, game>>

NextPrompt == StartGame \/ CompleteTurnWithPrompt \/ HandleSpecialEvents

SpecPrompt == InitWeb /\ [][NextPrompt]_vars

\* /api/get_company_status on session s: the score is computed from the
\* stored dict, round(..., 2) and int() of a sum that is whole in
\* hundredths.
get_company_status(s) ==
    LET company_dict == s.company
        score == int((company_dict.balance + company_dict.customers * 10)
                         * Hundredths
                     + company_dict.reputation * 1000
                     + company_dict.product_quality * 1000, Hundredths)
    IN [handler |-> "get_company_status", status |-> 200,
        company |-> company_dict, current_month |-> s.current_month,
        score |-> score,
        game_over |-> s.current_month > 12 \/ company_dict.is_bankrupt]

\* save_score: a row is written only for a company that is not bankrupt
\* and has months_survived >= 12.
save_score(company_dict, final_score) ==
    IF company_dict.is_bankrupt \/ company_dict.months_survived < 12
    THEN [saved |-> FALSE]
    ELSE [saved |-> TRUE, final_score |-> final_score,
          final_balance |-> company_dict.balance,
          outstanding_debt |->
              SumSeq([i \in 1..Len(company_dict.loans) |->
                         company_dict.loans[i].amount])]

\* GET /game_over on session s: computes the final score, saves it, and
\* clears the session.
game_over_route(s) ==
    LET company_dict == s.company
        final_score == int((company_dict.balance + company_dict.customers * 10)
                               * Hundredths
                           + company_dict.reputation * 1000
                           + company_dict.product_quality * 1000, Hundredths)
    IN [session |-> NoSession,
        response |-> [handler |-> "game_over", status |-> 200,
                      company |-> company_dict,
                      final_score |-> final_score,
                      row |-> save_score(company_dict, final_score)]]

\* The score pages of the web game, on the session of a new game and on
\* sessions before the last turn, without loans and with loans being
\* repaid.
StatusSessions ==
    {start_game} \cup
    {[active |-> TRUE,
      company |-> company_to_dict([NewCompany EXCEPT !.balance = b,
                                                     !.loans = ls,
                                                     !.months_survived = 11]),
      current_month |-> 12] :
        b \in {-1000, 10000},
        ls \in {<<>>, <<Loan(3000, 2, 2000)>>,
                <<Loan(1000, 1, 2000), Loan(3000, 2, 2000)>>}}

InitStatus ==
    /\ session \in StatusSessions
    /\ company = dict_to_company(session.company)
    /\ result = NoResult
    /\ ops = 0
    /\ response = NoResponse
    /\ turns = 0
    /\ game = NoGame

CompleteTurnBeforeStatus ==
    /\ turns < MaxStatusTurns
    /\ \E a \in {"nothing", "take_loan", "go_bankrupt"}, roll \in TurnRolls,
          ue \in EvenDraws, r \in RevenueFactors :
         Turn(a, roll, <<0, 0, 0>>, ue, r)

\* GET /api/get_company_status
GetCompanyStatus ==
    /\ turns < MaxStatusTurns
    /\ response' = IF ~session.active
                   THEN [handler |-> "get_company_status", status |-> 400,
                         error |-> "no_game"]
                   ELSE get_company_status(session)
    /\ turns' = turns + 1
    /\ UNCHANGED <<company, result, ops, session, game>>

\* GET /game_over; without a session it redirects to the home page.
GameOverPage ==
    /\ turns < MaxStatusTurns
    /\ IF ~session.active
       THEN /\ response' = [handler |-> "game_over", status |-> 302]
            /\ UNCHANGED session
       ELSE LET out == game_over_route(session)
            IN /\ session' = out.session
               /\ response' = out.response
    /\ turns' = turns + 1
    /\ UNCHANGED <<company, result, ops, game>>

NextStatus == CompleteTurnBeforeStatus \/ GetCompanyStatus \/ GameOverPage

SpecStatus == InitStatus /\ [][NextStatus]_vars

\* ================================================================= claims

\* C1: in every state reachable from a new company by any sequence of turns,
\* reputation >= 0.1.
C1_ReputationFloor == company.reputation >= 10

\* C2: once is_bankrupt is true, no later complete_turn call changes
\* customers, reputation, product_quality or balance.
C2_BankruptTurnIsNoop ==
    [][(/\ session.active
        /\ session.company.is_bankrupt
        /\ response'.handler = "complete_turn")
       => /\ session'.company.customers = session.company.customers
          /\ session'.company.reputation = session.company.reputation
          /\ session'.company.product_quality = session.company.product_quality
          /\ session'.company.balance = session.company.balance]_vars

\* C4: a turn reports game over exactly when the advanced month counter is
\* > 12, or is_bankrupt, or balance < -5000: a balance of exactly -5000 in an
\* earlier month of a live company does not end the game, -5001 does.
C4_GameOverExactly ==
    (response.handler = "complete_turn" /\ response.status = 200) =>
        /\ response.game_over <=>
             \/ session.current_month > 12
             \/ session.company.is_bankrupt
             \/ session.company.balance < -5000
        /\ (/\ session.company.balance = -5000
            /\ session.current_month <= 12
            /\ ~session.company.is_bankrupt) => ~response.game_over
        /\ session.company.balance = -5001 => response.game_over

C4_Witness ==
    /\ response.handler = "complete_turn"
    /\ response.status = 200
    /\ session.company.balance = -5000
    /\ session.current_month <= 12
    /\ ~session.company.is_bankrupt
    /\ ~response.game_over

\* C8: the probabilities of the table trigger_random_event samples sum to
\* less than 1, so the largest draws in [0,1) fall past the last entry and
\* yield the quiet day (event 0).
C8_ProbabilitiesSumBelowOne ==
    result.op = "trigger_random_event" =>
        /\ SumSeq([i \in 1..Len(events) |-> events[i].probability]) < Hundredths
        /\ result.roll = Hundredths - 1 => result.event = 0

\* C9: trigger_random_event runs the first entry whose cumulative
\* probability meets or exceeds the draw; a draw of 0.0 selects Economic
\* Boom; a draw of 1.0, or one above the cumulative sum, gives the neutral
\* narration and leaves the company as it was.
C9_FirstEntry(roll) ==
    LET upto(i) == SumSeq([j \in 1..i |-> events[j].probability])
        hit == {i \in 1..Len(events) : roll <= upto(i)}
    IN IF hit = {} THEN 0 ELSE CHOOSE i \in hit : \A j \in hit : i <= j

C9_SelectionByDraw ==
    result.op = "trigger_random_event" =>
        /\ (result.roll # Hundredths) => result.event = C9_FirstEntry(result.roll)
        /\ result.roll = 0 => events[result.event].name = "Economic Boom"
        /\ (\/ result.roll = Hundredths
            \/ result.roll > SumSeq([i \in 1..Len(events) |-> events[i].probability]))
           => result.event = 0 /\ company = result.before

\* C3: execute_action with a NORMAL action checks affordability before any
\* mutation: with balance < cost the company is unchanged and the failure
\* narration is returned; otherwise balance drops by exactly the catalog cost
\* (1500, 2000, 3000, 1000, 4000, 0), so a new company has 8500 right after
\* MARKETING.
C3_CatalogCost(a) ==
    CASE a = "marketing" -> 1500 [] a = "development" -> 2000
      [] a = "hiring" -> 3000 [] a = "research" -> 1000
      [] a = "expansion" -> 4000 [] a = "nothing" -> 0

C3_AffordabilityBeforeMutation ==
    (result.op = "execute_action" /\ result.action \in NORMAL) =>
        /\ IF result.before.balance < C3_CatalogCost(result.action)
           THEN company = result.before /\ result.narration = "cannot_afford"
           ELSE /\ company.balance =
                     result.before.balance - C3_CatalogCost(result.action)
                /\ result.narration = "invested"
        /\ (result.before = NewCompany /\ result.action = "marketing")
              => company.balance = 8500

C3_Witness ==
    /\ result.op = "execute_action"
    /\ result.action \in NORMAL
    /\ result.narration = "cannot_afford"
    /\ result.before.balance >= 0

\* C5: take_emergency_loan, from any balance and any existing loans, adds
\* exactly 5000 to balance, appends exactly one Loan(5000, 3, 2000) at the end
\* of loans, changes nothing else and never fails.
C5_TakeLoanEffect ==
    result.op = "take_emergency_loan" =>
        /\ result.narration = "loan"
        /\ company = [result.before EXCEPT
                        !.balance = @ + 5000,
                        !.loans = @ \o <<[amount |-> 5000, months_remaining |-> 3,
                                          monthly_payment |-> 2000]>>]

C5_Witness ==
    /\ result.op = "take_emergency_loan"
    /\ result.before.balance < 0
    /\ result.before.loans # <<>>
    /\ result.before.loans[1].amount < 5000

\* C6: from loans = [Loan(5000, 3, 2000)], three consecutive
\* process_loan_payments calls deduct 2000 each, take the amount through
\* 3000, 1000, 0 and remove the loan on the third call and not earlier; a
\* fourth call is a no-op returning the empty narration.
C6_ThreePaymentsThenNoop ==
    (result.op = "process_loan_payments"
       /\ result.start.loans = <<Loan(5000, 3, 2000)>>) =>
        /\ result.streak = 1 =>
             /\ company.balance = result.start.balance - 2000
             /\ company.loans = <<Loan(3000, 2, 2000)>>
             /\ ~result.empty
        /\ result.streak = 2 =>
             /\ company.balance = result.start.balance - 4000
             /\ company.loans = <<Loan(1000, 1, 2000)>>
             /\ ~result.empty
        /\ result.streak = 3 =>
             /\ company.balance = result.start.balance - 6000
             /\ company.loans = <<>>
             /\ result.completed_loans = <<Loan(0, 0, 2000)>>
             /\ ~result.empty
        /\ result.streak >= 4 =>
             /\ result.empty
             /\ company = result.before
             /\ company.balance = result.start.balance - 6000

C6_Witness ==
    /\ result.op = "process_loan_payments"
    /\ result.start.loans = <<Loan(5000, 3, 2000)>>
    /\ result.streak = 4

\* C7: after every process_loan_payments call, loans holds exactly the
\* previously held loans whose decremented months_remaining and reduced
\* amount are both > 0, in their original order (also when several loans
\* are equal), and no amount has increased.
C7_Decremented(l) ==
    [amount |-> IF l.amount - l.monthly_payment > 0
                THEN l.amount - l.monthly_payment ELSE 0,
     months_remaining |-> l.months_remaining - 1,
     monthly_payment |-> l.monthly_payment]

C7_StillOwed(l) == l.months_remaining > 0 /\ l.amount > 0

C7_LoansKeptExactly ==
    result.op = "process_loan_payments" =>
        LET old == result.before.loans
            dec == [i \in 1..Len(old) |-> C7_Decremented(old[i])]
        IN /\ company.loans = SelectSeq(dec, C7_StillOwed)
           /\ \A i \in 1..Len(old) : dec[i].amount <= old[i].amount
           /\ get_total_debt(company) <= get_total_debt(result.before)

C7_Witness ==
    /\ result.op = "process_loan_payments"
    /\ Len(result.before.loans) = 3
    /\ result.before.loans[1] = result.before.loans[2]
    /\ Len(company.loans) = 1

\* C10: calculate_score returns int(balance + customers*10 + reputation*1000
\* + product_quality*1000 - sum of outstanding loan amounts), leaves the
\* company as it was, and is 12500 for a new company.
C10_ScoreFormula ==
    result.op = "calculate_score" =>
        LET c == result.before
            debt == SumSeq([i \in 1..Len(c.loans) |-> c.loans[i].amount])
        IN /\ result.value =
                int(Hundredths * (c.balance + c.customers * 10 - debt)
                    + 1000 * c.reputation + 1000 * c.product_quality,
                    Hundredths)
           /\ company = result.before
           /\ c = NewCompany => result.value = 12500

C10_Witness ==
    /\ result.op = "calculate_score"
    /\ result.before.loans # <<>>
    /\ result.before.balance < 0
    /\ result.value < 0
\* C10 as stated: the score of a newly created company is 12000.
C10_NewCompanyScores12000 ==
    (result.op = "calculate_score" /\ result.before = NewCompany)
        => result.value = 12000
\* C11: in every state reachable by actions and event handlers,
\* product_quality >= 0.1: a handler that lowers it stops at 0.1.
C11_QualityFloor ==
    /\ company.product_quality >= 10
    /\ (result.op = "call_handler"
          /\ company.product_quality < result.before.product_quality)
       => result.name \in {"Server Crash", "Employee Quits",
                           "Intern Disaster", "Comic Sans Code"}

C11_Witness ==
    /\ result.op = "call_handler"
    /\ result.name = "Server Crash"
    /\ result.before.product_quality = 30
    /\ company.product_quality = 10

\* C12: in every state reachable by actions and event handlers,
\* customers >= 0: a handler that removes customers stops at 0, the
\* recession on a company with no customers included.
C12_CustomersFloor ==
    /\ company.customers >= 0
    /\ (result.op = "call_handler" /\ result.name = "Recession Hit"
          /\ result.before.customers = 0)
       => company = result.before

C12_Witness ==
    /\ result.op = "call_handler"
    /\ result.name = "Recession Hit"
    /\ result.before.customers = 0
    /\ company.customers = 0

\* C13: employees >= 1 in every reachable state: Employee Quits does
\* nothing when employees <= 1, CEO Affair removes an employee only when
\* employees > 2, and nothing else lowers employees.
C13_EmployeesFloor ==
    /\ company.employees >= 1
    /\ result.op = "call_handler" =>
         /\ (result.name = "Employee Quits" /\ result.before.employees <= 1)
              => company = result.before
         /\ result.name = "CEO Affair" =>
              company.employees = IF result.before.employees > 2
                                  THEN result.before.employees - 1
                                  ELSE result.before.employees
         /\ company.employees < result.before.employees
              => result.name \in {"Employee Quits", "CEO Affair"}
    /\ result.op = "execute_action" =>
         company.employees >= result.before.employees

C13_Witness ==
    /\ result.op = "call_handler"
    /\ result.name = "Employee Quits"
    /\ result.before.employees = 1
    /\ company.employees = 1

\* C15: the handlers of Trade Fair Gamble, Startup Quiz and Dragons Den
\* leave every company field as it was, whether they return a prompt or
\* the insufficient-budget narration.
C15_InteractiveHandlersChangeNothing ==
    (result.op = "call_handler"
       /\ result.name \in {"Trade Fair Gamble", "Startup Quiz", "Dragons Den"})
    => /\ company = result.before
       /\ result.interactive <=>
            \/ result.name = "Startup Quiz"
            \/ result.name = "Trade Fair Gamble" /\ company.balance >= 1000
            \/ result.name = "Dragons Den" /\ company.balance >= 500

C15_Witness ==
    /\ result.op = "call_handler"
    /\ result.name = "Dragons Den"
    /\ result.interactive
    /\ company.balance = 10000
C14_ActionsMatchDebtState ==
    [][(/\ session.active
        /\ response'.handler = "complete_turn"
        /\ response'.status = 200)
       => /\ response'.action \in SPECIAL => session.company.balance < 0
          /\ response'.action \in NORMAL => session.company.balance >= 0]_vars

\* C17: in a turn of a non-bankrupt company the phases run in the order
\* action, random event, finance settlement, loan payments, month advance:
\* the revenue/expense settlement runs on the loans as they were, and the
\* loan payments are taken afterwards.
C17_PhaseNames ==
    [i \in 1..Len(response.phases) |-> response.phases[i].phase]

C17_FinancesThenLoans ==
    (response.handler = "complete_turn" /\ response.status = 200
       /\ response.settled) =>
        LET p == response.phases
        IN /\ C17_PhaseNames =
                <<"load", "action", "event", "finances", "loans", "month">>
           /\ p[4].company.loans = p[3].company.loans
           /\ p[4].company.balance =
                p[3].company.balance + p[4].company.monthly_revenue
                    - p[4].company.monthly_expenses
           /\ p[5].company.balance =
                p[4].company.balance - get_monthly_loan_payments(p[4].company)
           /\ p[5].company.monthly_revenue = p[4].company.monthly_revenue
           /\ p[6].company = company

C17_Witness ==
    /\ response.handler = "complete_turn"
    /\ response.status = 200
    /\ response.settled
    /\ response.action = "take_loan"
    /\ response.phases[4].company.loans = <<Loan(5000, 3, 2000)>>
    /\ response.phases[5].company.loans = <<Loan(3000, 2, 2000)>>

\* C17 as stated: loan payments are processed before the revenue/expense
\* settlement.
C17_LoansThenFinances ==
    (response.handler = "complete_turn" /\ response.status = 200
       /\ response.settled) =>
        C17_PhaseNames =
            <<"load", "action", "event", "loans", "finances", "month">>

\* C18: months_survived never decreases over turns and changes only when a
\* finance settlement completes, to the month just settled; a turn without
\* settlement leaves it as it was.
C18_MonthsSurvivedOnlyBySettlement ==
    [][(/\ session.active
        /\ response'.handler = "complete_turn"
        /\ response'.status = 200)
       => /\ session'.company.months_survived >= session.company.months_survived
          /\ response'.settled =>
               session'.company.months_survived = session.current_month
          /\ ~response'.settled =>
               session'.company.months_survived =
                   session.company.months_survived]_vars

\* C19: a turn requested with an unknown action id is reported as an error
\* and mutates nothing: the stored company and the month counter are as
\* before, and no event or settlement runs.
C19_InvalidActionMutatesNothing ==
    [][(session.active /\ response'.handler = "complete_turn")
       => /\ response'.status = 400 <=> response'.action \notin ActionType
          /\ response'.status = 400 =>
               /\ response'.error = "invalid_action"
               /\ session' = session
               /\ "phases" \notin DOMAIN response']_vars

C19_Witness ==
    /\ response.handler = "complete_turn"
    /\ response.status = 400
    /\ response.error = "invalid_action"
    /\ response.action = "bogus"
    /\ session.active
    /\ session.current_month = 11

\* C20: GO_BANKRUPT sets is_bankrupt and changes no other field (balance
\* and loans stay), and in the turn in which it is chosen no random event,
\* loan payment or finance settlement follows.
C20_GoBankruptOnlySetsFlag ==
    (response.handler = "complete_turn" /\ response.status = 200
       /\ response.action = "go_bankrupt") =>
        LET p == response.phases
        IN /\ [i \in 1..Len(p) |-> p[i].phase] = <<"load", "action", "month">>
           /\ p[2].company = [p[1].company EXCEPT !.is_bankrupt = TRUE]
           /\ \A f \in DOMAIN company \ {"is_bankrupt", "months_survived"} :
                company[f] = p[1].company[f]
           /\ company.is_bankrupt
           /\ response.event = -1
           /\ ~response.settled

C20_Witness ==
    /\ response.handler = "complete_turn"
    /\ response.status = 200
    /\ response.action = "go_bankrupt"
    /\ ~response.phases[1].company.is_bankrupt
    /\ response.phases[1].company.balance = -2750
    /\ company.is_bankrupt
    /\ company.balance = -2750
\* C21: when no_revenue_this_month is true as process_monthly_finances runs,
\* that settlement's revenue is 0 and the flag is false afterwards, so the
\* settlement after it earns again; with the flag false the revenue is
\* int(customers * product_quality * reputation * r) for r in [5, 8].
C21_FlagSuppressesOneSettlement ==
    result.op = "process_monthly_finances" =>
        LET b == result.before
        IN /\ ~company.no_revenue_this_month
           /\ result.r >= 5 /\ result.r <= 8
           /\ b.no_revenue_this_month => company.monthly_revenue = 0
           /\ ~b.no_revenue_this_month =>
                company.monthly_revenue =
                    (b.customers * b.product_quality * b.reputation * result.r)
                        \div (Hundredths * Hundredths)
           /\ result.streak >= 2 => ~b.no_revenue_this_month

C21_Witness ==
    /\ result.op = "process_monthly_finances"
    /\ result.before.no_revenue_this_month
    /\ result.before.customers = 50
    /\ result.before.reputation >= 70
    /\ company.monthly_revenue = 0
    /\ ~company.no_revenue_this_month

C23_MarketingBoostCounter ==
    /\ company.marketing_boost \in {0, 1, 2}
    /\ result.op # "none" =>
         LET b == result.before
             boom == result.op = "call_handler" /\ result.name = "Economic Boom"
             campaign == /\ result.op = "execute_action"
                         /\ result.action = "marketing"
                         /\ result.narration = "invested"
             drawn_customers == IF result.u[1] = 0 THEN 15 ELSE 35
             drawn_reputation == IF result.u[2] = 0 THEN 10 ELSE 30
         IN /\ boom => company.marketing_boost = 2
            /\ (campaign /\ b.marketing_boost > 0) =>
                 /\ company.marketing_boost = b.marketing_boost - 1
                 /\ company.customers = b.customers + 2 * drawn_customers
                 /\ company.reputation = b.reputation + 2 * drawn_reputation
            /\ (campaign /\ b.marketing_boost = 0) =>
                 /\ company.marketing_boost = 0
                 /\ company.customers = b.customers + drawn_customers
                 /\ company.reputation = b.reputation + drawn_reputation
            /\ (~boom /\ ~campaign) =>
                 company.marketing_boost = b.marketing_boost

C23_Witness ==
    /\ result.op = "execute_action"
    /\ result.action = "marketing"
    /\ result.narration = "invested"
    /\ result.before.marketing_boost = 2
    /\ company.marketing_boost = 1
    /\ company.customers = result.before.customers + 70
\* C24: every entry of the event table can be selected: for each of the 32
\* entries, the three interactive events at the end included, there is a
\* draw in [0,1) for which trigger_random_event runs that entry's handler.
C24_EveryEntrySelectable ==
    result.op = "trigger_random_event" =>
        \A i \in 1..Len(events) :
            \E roll \in 0..Hundredths : selected(roll) = i
\* C25: the monthly revenue computed by process_monthly_finances is never
\* negative in a state reachable from a new company, so a settlement never
\* lowers balance by more than its expenses.
C25_RevenueNeverNegative ==
    (response.handler = "complete_turn" /\ response.status = 200
       /\ response.settled) =>
        LET before == response.phases[3].company
            after == response.phases[4].company
        IN /\ after.monthly_revenue >= 0
           /\ after.balance >= before.balance - after.monthly_expenses
\* C26: at the end of every turn, after any sequence of turns with any
\* actions, a company has at most 2 outstanding loans with a total
\* remaining principal of at most 4000, and every outstanding loan has
\* months_remaining in {1, 2} and amount > 0.
C26_LoansBoundedAtTurnEnd ==
    (response.handler = "complete_turn" /\ response.status = 200) =>
        LET loans == session.company.loans
        IN /\ Len(loans) <= 2
           /\ SumSeq([i \in 1..Len(loans) |-> loans[i].amount]) <= 4000
           /\ \A i \in 1..Len(loans) :
                /\ loans[i].months_remaining \in {1, 2}
                /\ loans[i].amount > 0
\* C27: a game spans at most twelve months: a turn whose month index
\* exceeds 12 applies no action, event or settlement, and once a turn has
\* reported game over no later turn call changes the company or the month
\* counter.
C27_NoTurnAfterGameOver ==
    [][(session.active /\ response'.handler = "complete_turn")
       => /\ session.current_month > 12 => session' = session
          /\ (/\ response.handler = "complete_turn"
              /\ response.status = 200
              /\ response.game_over) => session' = session]_vars
\* C29: handle_special_events changes the company only when the most
\* recent turn returned an interactive prompt of the same kind that has
\* not been resolved yet, so a quiz bonus or a Dragons Den outcome is
\* applied at most once per triggered event.
C29_ResolutionNeedsPendingPrompt ==
    [][(/\ session.active
        /\ response'.handler = "handle_special_events"
        /\ session'.company # session.company)
       => /\ response.handler = "complete_turn"
          /\ response.status = 200
          /\ response.interactive
          /\ response'.message = "quiz_bonus"
                => events[response.event].name = "Startup Quiz"
          /\ response'.message \in {"success", "flop"}
                => events[response.event].name = "Dragons Den"]_vars

\* C30: the score the web layer reports during play and records at game
\* over is calculate_score of the same company state: it subtracts the
\* remaining principal of all outstanding loans.
C30_WebScoreIsCalculateScore ==
    /\ (response.handler = "get_company_status" /\ response.status = 200)
         => response.score = calculate_score(dict_to_company(response.company))
    /\ (response.handler = "game_over" /\ response.status = 200) =>
         /\ response.final_score =
                calculate_score(dict_to_company(response.company))
         /\ response.row.saved =>
                response.row.final_score =
                    calculate_score(dict_to_company(response.company))
\* C28: in the CLI game with N companies (1 <= N <= 4) the turns are taken
\* round-robin in the fixed order of the companies, the month counter
\* advances by one only after all N companies have had their turn for the
\* month, and the loop ends after exactly 12 * N play_turn calls, also
\* when companies are bankrupt.
C28_TurnOrder ==
    game.pc \in {"play_turn", "advance_month", "display_final_results"} =>
        LET N == Len(game.companies)
        IN /\ N >= 1 /\ N <= 4
           /\ game.calls <= 12 * N
           /\ game.pc = "display_final_results" <=> game.game_over
           /\ game.game_over => game.calls = 12 * N
           /\ game.pc = "play_turn" =>
                /\ game.current_month = game.calls \div N + 1
                /\ game.current_player_index = game.calls % N
           /\ game.pc = "advance_month" =>
                /\ result.player = (game.calls - 1) % N
                /\ result.month = (game.calls - 1) \div N + 1
                /\ game.current_month = result.month

C28_RoundRobinTwelveMonths ==
    /\ []C28_TurnOrder
    /\ <>(game.game_over /\ game.calls = 12 * Len(game.companies))

C28_Witness ==
    /\ game.game_over
    /\ Len(game.companies) = 4
    /\ game.calls = 48
    /\ game.companies[1].is_bankrupt
    /\ game.companies[2].is_bankrupt
    /\ ~game.companies[3].is_bankrupt
====
